---- MODULE Spec2Model ----
(***************************************************************************)
(* A model of the people counter (Vision/main.py) and of the CSV API       *)
(* (API/api.py).                                                           *)
(*                                                                         *)
(* Text is modelled as a sequence of tokens: a token is a run of           *)
(* characters that the programs never look inside (a word, a number), or   *)
(* one of the characters they do look at: "," the delimiter, "\"" the      *)
(* quote, "#" the comment mark, " " white space.  A line is a sequence of  *)
(* tokens, a file a sequence of lines.  Time is in seconds; a confidence   *)
(* is in percent.                                                          *)
(***************************************************************************)
EXTENDS Integers, Sequences, FiniteSets, TLC

\* ------------------------------------------------------------------ bounds
MaxId == 1
MaxDets == 2
MaxFrames == 2
MaxTicks == 2
NumThreads == 2
MaxCalls == 2
MaxLines == 2
MaxInits == 2
MaxApiLines == 3
MaxLimit == 2
MaxOffset == 2
MaxCount == 2
MaxWorkers == 2
MaxNewFrames == 2

\* ------------------------------------------------------- program constants
SecondsPerMinute == 60
SecondsPerHour == 3600
SecondsPerDay == 86400
ConfidenceThreshold == 70
DebugInterval == 10
TimelapseLimit == 300

VARIABLES
    now,           \* time.time(), in seconds
    ticks,         \* how many times the clock has advanced (bounds the run)
    user_data,     \* the user_app_callback_class instance
    csv_exists,    \* whether people_count_log.csv exists
    csv_file,      \* its lines
    pc,            \* where app_callback is: "idle" (not running) or "loop"
    cb,            \* the running (or last) app_callback invocation
    since,         \* the ids detected by the callbacks that read the clock in
                   \* minute user_data.current_minute
    constructed,   \* how many times user_app_callback_class() has run
    csv_lock,      \* user_data.csv_lock: 0 when free, else the thread holding it
    threads,       \* the threads that call log_to_csv: where each one is, the
                   \* time it read, and the file object it has open
    csv_readable,  \* whether the API's process may read the file
    response,      \* the API's (or the dashboard's) answer to the last request
    timelapse_frames,   \* the dashboard's list of frames, each the number of
                        \* its capture
    timelapse_running,  \* the dashboard's flag
    timelapse_workers,  \* the timelapse_worker threads: where each one is and
                        \* the frame it holds
    captured       \* how many frames the camera has delivered

vision == <<now, ticks, user_data, pc, cb, since>>
locking == <<csv_lock, threads>>
api == <<csv_readable, response>>
dashboard == <<timelapse_frames, timelapse_running, timelapse_workers, captured>>
vars == <<now, ticks, user_data, csv_exists, csv_file, pc, cb, since, constructed,
          csv_lock, threads, csv_readable, response, timelapse_frames,
          timelapse_running, timelapse_workers, captured>>

\* ----------------------------------------------- web_dashboard/app.py, at import
Workers == 1..MaxWorkers
\* A thread that has not been started.
NoWorker == [at |-> "unstarted", frame |-> 0]

\* The module's globals after import: no frames, no worker.
DashboardIdle ==
    /\ timelapse_frames = <<>>
    /\ timelapse_running = FALSE
    /\ timelapse_workers = [w \in Workers |-> NoWorker]
    /\ captured = 0

\* ------------------------------------------------------------------- text
Whitespace == {" ", "\t"}
Special == {",", "\""}

\* csv.writer's formatting of one cell (QUOTE_MINIMAL): quoted when it holds
\* the delimiter or the quote character.
FmtCell(c) ==
    IF \E i \in 1..Len(c) : c[i] \in Special
    THEN <<"\"">> \o c \o <<"\"">>
    ELSE c

RECURSIVE JoinCells(_)
JoinCells(row) ==
    IF row = <<>> THEN <<>>
    ELSE IF Len(row) = 1 THEN FmtCell(row[1])
    ELSE FmtCell(row[1]) \o <<",">> \o JoinCells(Tail(row))

\* writer.writerow(row): the line the row becomes.
writerow(row) == JoinCells(row)

HeaderNames ==
    <<"Timestamp", "Minute", "Hour", "Day", "People_This_Minute",
      "People_This_Hour", "People_This_Day", "Total_Unique_People">>

HeaderRow == [i \in 1..Len(HeaderNames) |-> <<HeaderNames[i]>>]

CommentRow1 ==
    << <<"#", " Hailo AI People Counter Data - Generated by Vision/main.py">> >>

CommentRow2 ==
    << <<"#", " This file contains people detection statistics for charting and analysis">> >>

CommentRow3 ==
    << <<"#", " Format: Timestamp", ",", " Minute", ",", " Hour", ",", " Day", ",",
         " People_This_Minute", ",", " People_This_Hour", ",", " People_This_Day",
         ",", " Total_Unique_People">> >>

\* The five lines init_csv_file writes.
HeaderLines ==
    <<writerow(CommentRow1), writerow(CommentRow2), writerow(CommentRow3),
      writerow(<<>>), writerow(HeaderRow)>>

\* file.read().strip() is empty.
IsBlankContent(file) ==
    \A i \in 1..Len(file) : \A j \in 1..Len(file[i]) : file[i][j] \in Whitespace

\* ------------------------------------------------------- the callback class
minute_of(t) == t \div SecondsPerMinute
hour_of(t) == t \div SecondsPerHour
day_of(t) == t \div SecondsPerDay

\* __init__, without init_csv_file.
NewUserData(t) ==
    [ frame_count |-> 0,
      people_count |-> 0,
      tracked_people |-> {},
      last_log_time |-> t,
      current_minute_people |-> {},
      current_hour_people |-> {},
      current_day_people |-> {},
      current_minute |-> minute_of(t),
      current_hour |-> hour_of(t),
      current_day |-> day_of(t),
      last_debug_time |-> t ]

\* A variant of init_csv_file that opens the file with mode 'w' whatever it
\* holds.
init_csv_file_always_writes(exists, file, writable) ==
    IF writable
    THEN [exists |-> TRUE, file |-> HeaderLines]
    ELSE [exists |-> exists, file |-> file]

\* init_csv_file: the file it leaves, as [exists, file].
init_csv_file(exists, file, writable) ==
    IF ~exists
    THEN IF writable
         THEN [exists |-> TRUE, file |-> HeaderLines]
         ELSE [exists |-> FALSE, file |-> file]
    ELSE IF IsBlankContent(file) /\ writable
         THEN [exists |-> TRUE, file |-> HeaderLines]
         ELSE [exists |-> TRUE, file |-> file]

\* The row log_to_csv writes.
DataRow(ud, t, stamp) ==
    << <<ToString(stamp)>>,
       <<ToString(minute_of(t))>>,
       <<ToString(hour_of(t))>>,
       <<ToString(day_of(t))>>,
       <<ToString(Cardinality(ud.current_minute_people))>>,
       <<ToString(Cardinality(ud.current_hour_people))>>,
       <<ToString(Cardinality(ud.current_day_people))>>,
       <<ToString(Cardinality(ud.tracked_people))>> >>

\* log_to_csv on st = [ud, exists, file, frame_people]: appends one row when
\* the file opens (mode 'a' creates a missing file), and sets last_log_time
\* either way.
log_to_csv(st, writable, t) ==
    [st EXCEPT !.ud.last_log_time = t,
               !.exists = @ \/ writable,
               !.file = IF writable THEN Append(@, writerow(DataRow(st.ud, t, t))) ELSE @]

\* debug_status: prints, and restarts its ten-second timer.
debug_status(ud, t) ==
    IF t - ud.last_debug_time >= DebugInterval
    THEN [ud EXCEPT !.last_debug_time = t]
    ELSE ud

\* A variant of add_person that counts every call.
add_person_counts_every_call(ud, track_id) ==
    [ ud |-> [ud EXCEPT !.tracked_people = @ \cup {track_id},
                        !.people_count = @ + 1,
                        !.current_minute_people = @ \cup {track_id},
                        !.current_hour_people = @ \cup {track_id},
                        !.current_day_people = @ \cup {track_id}],
      ret |-> track_id \notin ud.tracked_people ]

\* A variant of add_person that returns as soon as it finds the id tracked.
add_person_returns_on_repeat(ud, track_id) ==
    IF track_id \in ud.tracked_people
    THEN [ud |-> ud, ret |-> FALSE]
    ELSE [ ud |-> [ud EXCEPT !.tracked_people = @ \cup {track_id},
                             !.people_count = @ + 1,
                             !.current_minute_people = @ \cup {track_id},
                             !.current_hour_people = @ \cup {track_id},
                             !.current_day_people = @ \cup {track_id}],
           ret |-> TRUE ]

\* add_person: the instance it leaves and the value it returns.
add_person(ud, track_id) ==
    LET is_new == track_id \notin ud.tracked_people
        u1 == IF is_new
              THEN [ud EXCEPT !.tracked_people = @ \cup {track_id},
                              !.people_count = @ + 1]
              ELSE ud
    IN  [ ud |-> [u1 EXCEPT !.current_minute_people = @ \cup {track_id},
                            !.current_hour_people = @ \cup {track_id},
                            !.current_day_people = @ \cup {track_id}],
          ret |-> is_new ]

\* ----------------------------------------------------------- the callback
Labels == {"person", "car"}
Confidences == {ConfidenceThreshold - 1, ConfidenceThreshold}
\* The HAILO_UNIQUE_ID objects of a detection: none, or one tracker id.
Tracks == {<<>>} \cup {<<i>> : i \in 1..MaxId}
\* The detections of the model: every accepted one, and two the loop skips,
\* which carry tracker id 1.
Detections ==
    {d \in [label : Labels, confidence : Confidences, track : Tracks] :
        \/ d.label = "person" /\ d.confidence = ConfidenceThreshold
        \/ d.label = "person" /\ d.track = <<1>>
        \/ d.confidence = ConfidenceThreshold /\ d.track = <<1>>}

\* A variant of the test that leaves the confidence out.
Accepted_any_person(d) == d.label = "person"

\* A detection the loop counts: a person at 70% confidence or more.
Accepted(d) == d.label = "person" /\ ~(d.confidence < ConfidenceThreshold)

TrackId(d) == IF Len(d.track) = 1 THEN d.track[1] ELSE 0

\* A variant of the iteration that logs every person it counts, new or not.
ProcessDetection_logs_every_person(st, d, writable, t) ==
    IF ~Accepted(d) THEN st
    ELSE LET r == add_person(st.ud, TrackId(d))
             s1 == [st EXCEPT !.ud = r.ud]
         IN  [log_to_csv(s1, writable, t) EXCEPT !.frame_people = @ + 1]

\* One iteration of the loop over the detections.
ProcessDetection(st, d, writable, t) ==
    IF ~Accepted(d) THEN st
    ELSE LET r == add_person(st.ud, TrackId(d))
             s1 == [st EXCEPT !.ud = r.ud]
             s2 == IF r.ret THEN log_to_csv(s1, writable, t) ELSE s1
         IN  [s2 EXCEPT !.frame_people = @ + 1]

\* A variant of the minute check that clears the set before it logs.
MinuteRollover_clears_first(st, writable, t) ==
    IF minute_of(t) # st.ud.current_minute
    THEN log_to_csv([st EXCEPT !.ud.current_minute_people = {},
                               !.ud.current_minute = minute_of(t)], writable, t)
    ELSE st

\* The minute check: log the set, then clear it.
MinuteRollover(st, writable, t) ==
    IF minute_of(t) # st.ud.current_minute
    THEN LET s1 == log_to_csv(st, writable, t)
         IN  [s1 EXCEPT !.ud.current_minute_people = {},
                        !.ud.current_minute = minute_of(t)]
    ELSE st

HourRollover(st, t) ==
    IF hour_of(t) # st.ud.current_hour
    THEN [st EXCEPT !.ud.current_hour_people = {}, !.ud.current_hour = hour_of(t)]
    ELSE st

DayRollover(st, t) ==
    IF day_of(t) # st.ud.current_day
    THEN [st EXCEPT !.ud.current_day_people = {}, !.ud.current_day = day_of(t)]
    ELSE st

\* app_callback after the loop: the clock reading, the three checks and
\* debug_status.
AfterLoop(st, writable, t) ==
    LET s1 == MinuteRollover(st, writable, t)
        s2 == HourRollover(s1, t)
        s3 == DayRollover(s2, t)
    IN  [s3 EXCEPT !.ud = debug_status(@, t)]

State == [ud |-> user_data, exists |-> csv_exists, file |-> csv_file,
          frame_people |-> cb.frame_people]

\* Nothing has called app_callback yet.
NoCallback ==
    [calls |-> 0, buffer |-> FALSE, n |-> 0, frame_people |-> 0, ret |-> "none",
     id |-> 0, ids |-> {}, rolled |-> FALSE,
     det |-> [label |-> "", confidence |-> 0, track |-> <<>>]]

\* What the last iteration did with its detection.
Outcome(ud, d) ==
    IF ~Accepted(d) THEN "skipped"
    ELSE IF add_person(ud, TrackId(d)).ret THEN "new" ELSE "seen"

\* A variant of the entry that counts the frame before it looks at the buffer.
CallbackBegin_counts_first(buffer) ==
    /\ pc = "idle"
    /\ cb.calls < MaxFrames
    /\ cb' = [NoCallback EXCEPT !.calls = cb.calls + 1, !.buffer = buffer]
    /\ pc' = IF buffer THEN "loop" ELSE "idle"
    /\ user_data' = [user_data EXCEPT !.frame_count = @ + 1]
    /\ UNCHANGED <<now, ticks, csv_exists, csv_file, since>>
    /\ UNCHANGED <<constructed, locking, api, dashboard>>

\* app_callback is entered; buffer says whether info.get_buffer() returned
\* one.  Without one it returns at once.
CallbackBegin(buffer) ==
    /\ pc = "idle"
    /\ cb.calls < MaxFrames
    /\ cb' = [NoCallback EXCEPT !.calls = cb.calls + 1, !.buffer = buffer]
    /\ pc' = IF buffer THEN "loop" ELSE "idle"
    /\ user_data' = IF buffer THEN [user_data EXCEPT !.frame_count = @ + 1]
                     ELSE user_data
    /\ UNCHANGED <<now, ticks, csv_exists, csv_file, since>>
    /\ UNCHANGED <<constructed, locking, api, dashboard>>

\* One iteration of the loop, on the next detection of the frame; writable
\* says whether the file opens if log_to_csv is called.
LoopStep(d, writable) ==
    /\ pc = "loop"
    /\ cb.n < MaxDets
    /\ LET r == ProcessDetection(State, d, writable, now)
       IN  /\ user_data' = r.ud
           /\ csv_exists' = r.exists
           /\ csv_file' = r.file
           /\ cb' = [cb EXCEPT !.n = @ + 1,
                               !.frame_people = r.frame_people,
                               !.ret = Outcome(user_data, d),
                               !.det = d,
                               !.id = IF Accepted(d) THEN TrackId(d) ELSE @,
                               !.ids = IF Accepted(d) THEN @ \cup {TrackId(d)} ELSE @]
    /\ UNCHANGED <<now, ticks, pc, since>>
    /\ UNCHANGED <<constructed, locking, api, dashboard>>

\* The frame has no more detections: the rest of app_callback, to its return,
\* where the locals of the invocation are gone.
CallbackEnd(writable) ==
    /\ pc = "loop"
    /\ LET r == AfterLoop(State, writable, now)
       IN  /\ user_data' = r.ud
           /\ csv_exists' = r.exists
           /\ csv_file' = r.file
    /\ pc' = "idle"
    /\ cb' = [NoCallback EXCEPT !.calls = cb.calls, !.buffer = cb.buffer,
                                !.ret = cb.ret,
                                !.rolled = minute_of(now) # user_data.current_minute]
    /\ since' = IF minute_of(now) # user_data.current_minute
                 THEN cb.ids
                 ELSE since \cup cb.ids
    /\ UNCHANGED <<now, ticks>>
    /\ UNCHANGED <<constructed, locking, api, dashboard>>

\* ------------------------------------------- log_to_csv, statement by statement
Threads == 1..NumThreads

\* A thread outside log_to_csv.
Outside == [at |-> "out", current_time |-> 0, file |-> <<>>, calls |-> 0]
NoThreads == [t \in Threads |-> Outside]

\* A variant without the lock: a thread goes on whoever holds it.
CanAcquire_unguarded(lock) == TRUE

\* with self.csv_lock: the lock is taken only when it is free.
CanAcquire(lock) == lock = 0

\* current_time = time.time(), and the three divisions.
LogEnter(t) ==
    /\ threads[t].at = "out"
    /\ threads[t].calls < MaxCalls
    /\ threads' = [threads EXCEPT ![t].at = "lock", ![t].current_time = now,
                                  ![t].calls = @ + 1]
    /\ UNCHANGED <<vision, csv_exists, csv_file, constructed, csv_lock, api, dashboard>>

LogAcquire(t) ==
    /\ threads[t].at = "lock"
    /\ CanAcquire(csv_lock)
    /\ csv_lock' = t
    /\ threads' = [threads EXCEPT ![t].at = "open"]
    /\ UNCHANGED <<vision, csv_exists, csv_file, constructed, api, dashboard>>

\* open(self.csv_file, 'a'): creates a missing file; raises when it cannot.
LogOpen(t, writable) ==
    /\ threads[t].at = "open"
    /\ csv_exists' = (csv_exists \/ writable)
    /\ threads' = [threads EXCEPT ![t].at = IF writable THEN "write" ELSE "release"]
    /\ UNCHANGED <<vision, csv_file, constructed, csv_lock, api, dashboard>>

\* writer.writerow(row_data): the line goes to the file object's buffer.
LogWrite(t) ==
    /\ threads[t].at = "write"
    /\ threads' = [threads EXCEPT
          ![t].at = "flush",
          ![t].file = <<writerow(DataRow(user_data, threads[t].current_time, now))>>]
    /\ UNCHANGED <<vision, csv_exists, csv_file, constructed, csv_lock, api, dashboard>>

\* file.flush(): the buffer goes to the end of the file.
LogFlush(t) ==
    /\ threads[t].at = "flush"
    /\ csv_file' = csv_file \o threads[t].file
    /\ threads' = [threads EXCEPT ![t].at = "close", ![t].file = <<>>]
    /\ UNCHANGED <<vision, csv_exists, constructed, csv_lock, api, dashboard>>

\* The end of "with open(...)": the file is closed.
LogClose(t) ==
    /\ threads[t].at = "close"
    /\ threads' = [threads EXCEPT ![t].at = "release"]
    /\ UNCHANGED <<vision, csv_exists, csv_file, constructed, csv_lock, api, dashboard>>

\* The end of "with self.csv_lock", also reached through the except clause.
LogRelease(t) ==
    /\ threads[t].at = "release"
    /\ csv_lock' = 0
    /\ threads' = [threads EXCEPT ![t].at = "return"]
    /\ UNCHANGED <<vision, csv_exists, csv_file, constructed, api, dashboard>>

\* self.last_log_time = current_time, and the return.
LogReturn(t) ==
    /\ threads[t].at = "return"
    /\ user_data' = [user_data EXCEPT !.last_log_time = threads[t].current_time]
    /\ threads' = [threads EXCEPT ![t].at = "out"]
    /\ UNCHANGED <<now, ticks, pc, cb, since, csv_exists, csv_file, constructed, csv_lock, api, dashboard>>

\* --------------------------------------------------------- construction
\* user_app_callback_class(): a new instance, and init_csv_file.
Construct(writable) ==
    /\ constructed < MaxInits
    /\ constructed' = constructed + 1
    /\ user_data' = NewUserData(now)
    /\ LET r == init_csv_file(csv_exists, csv_file, writable)
       IN  csv_exists' = r.exists /\ csv_file' = r.file
    /\ pc' = "idle"
    /\ cb' = NoCallback
    /\ since' = {}
    /\ UNCHANGED <<now, ticks, locking, api, dashboard>>

\* One log_to_csv call of the running program.
LogRow ==
    /\ Len(csv_file) < MaxLines + Len(HeaderLines)
    /\ LET r == log_to_csv(State, TRUE, now)
       IN  user_data' = r.ud /\ csv_exists' = r.exists /\ csv_file' = r.file
    /\ UNCHANGED <<now, ticks, pc, cb, since, constructed, locking, api, dashboard>>

\* =================================================================== API/api.py
\* A value pandas may have coerced away: <<>> is NaN (or NaT), <<n>> is n.
NaN == <<>>
IsNaN(v) == v = <<>>

\* line.strip(): white space off both ends.
RECURSIVE LStrip(_)
LStrip(line) ==
    IF line # <<>> /\ Head(line) \in Whitespace THEN LStrip(Tail(line)) ELSE line
RECURSIVE RStrip(_)
RStrip(line) ==
    IF line # <<>> /\ line[Len(line)] \in Whitespace
    THEN RStrip(SubSeq(line, 1, Len(line) - 1))
    ELSE line
Strip(line) == RStrip(LStrip(line))

StartsWith(line, prefix) ==
    Len(line) >= Len(prefix) /\ SubSeq(line, 1, Len(prefix)) = prefix

\* The text the loader looks for: the eight names with commas between them.
HeaderText == writerow(HeaderRow)

\* 'Timestamp,...,Total_Unique_People' in line
ContainsHeader(line) ==
    \E i \in 1..(Len(line) - Len(HeaderText) + 1) :
        SubSeq(line, i, i + Len(HeaderText) - 1) = HeaderText

\* line.split('Total_Unique_People', 1)[1]
AfterHeader(line) ==
    LET i == CHOOSE k \in 1..Len(line) :
                 /\ line[k] = "Total_Unique_People"
                 /\ \A j \in 1..(k - 1) : line[j] # "Total_Unique_People"
    IN  SubSeq(line, i + 1, Len(line))

\* The text of a run of tokens.
RECURSIVE Text(_)
Text(toks) == IF toks = <<>> THEN "" ELSE Head(toks) \o Text(Tail(toks))

\* text.split(','): the pieces between the commas, quotes and all.
RECURSIVE SplitFrom(_, _, _)
SplitFrom(line, cur, acc) ==
    IF line = <<>> THEN Append(acc, Text(cur))
    ELSE IF Head(line) = "," THEN SplitFrom(Tail(line), <<>>, Append(acc, Text(cur)))
    ELSE SplitFrom(Tail(line), Append(cur, Head(line)), acc)
SplitCommas(line) == SplitFrom(line, <<>>, <<>>)

\* list(csv.reader([line]))[0]: as split, but a comma between quotes belongs
\* to its cell and the quotes do not.
RECURSIVE ReadFrom(_, _, _, _)
ReadFrom(line, quoted, cur, acc) ==
    IF line = <<>> THEN Append(acc, Text(cur))
    ELSE IF Head(line) = "\"" THEN ReadFrom(Tail(line), ~quoted, cur, acc)
    ELSE IF Head(line) = "," /\ ~quoted
         THEN ReadFrom(Tail(line), FALSE, <<>>, Append(acc, Text(cur)))
    ELSE ReadFrom(Tail(line), quoted, Append(cur, Head(line)), acc)
csv_reader(line) == ReadFrom(line, FALSE, <<>>, <<>>)

NumColumns == 8
FirstColumns(row) == SubSeq(row, 1, NumColumns)

\* The loop of load_csv_data over the lines: the rows it collects and whether
\* it has found a header.
RECURSIVE ReadLines(_, _, _)
ReadLines(file, header_found, data) ==
    IF file = <<>> THEN [header_found |-> header_found, data |-> data]
    ELSE
      LET line == Strip(Head(file))
          rest == Tail(file)
      IN  IF line = <<>> \/ StartsWith(line, <<"#">>) \/ StartsWith(line, <<"\"", "#">>)
          THEN ReadLines(rest, header_found, data)
          ELSE IF ~header_found
          THEN IF ContainsHeader(line)
               THEN LET data_part == AfterHeader(line)
                        values == SplitCommas(data_part)
                    IN  IF data_part # <<>> /\ Len(values) >= NumColumns
                        THEN ReadLines(rest, TRUE, Append(data, FirstColumns(values)))
                        ELSE ReadLines(rest, TRUE, data)
               ELSE LET row == csv_reader(line)
                    IN  IF Len(row) >= NumColumns
                        THEN ReadLines(rest, TRUE, Append(data, FirstColumns(row)))
                        ELSE ReadLines(rest, FALSE, data)
          ELSE LET row == csv_reader(line)
               IN  IF Len(row) >= NumColumns
                   THEN ReadLines(rest, TRUE, Append(data, FirstColumns(row)))
                   ELSE ReadLines(rest, TRUE, data)

\* The rows of the model's files: one half an hour old, one twenty-five hours
\* old, as log_to_csv writes them.
ApiNow == 3 * SecondsPerDay
ApiTimes == {ApiNow - SecondsPerHour \div 2, ApiNow - 25 * SecondsPerHour}
ApiRow(t, count) ==
    << <<ToString(t)>>, <<ToString(minute_of(t))>>, <<ToString(hour_of(t))>>,
       <<ToString(day_of(t))>>, <<ToString(count)>>, <<ToString(count)>>,
       <<ToString(count)>>, <<ToString(count)>> >>
\* The numbers that occur in them.
Numbers ==
    (0..MaxCount) \cup ApiTimes \cup {minute_of(t) : t \in ApiTimes}
        \cup {hour_of(t) : t \in ApiTimes} \cup {day_of(t) : t \in ApiTimes}

\* pd.to_numeric(errors='coerce') and pd.to_datetime(errors='coerce') of one
\* cell.  The model writes a time stamp as its number of seconds.
to_numeric(text) ==
    IF \E n \in Numbers : ToString(n) = text
    THEN <<CHOOSE n \in Numbers : ToString(n) = text>>
    ELSE NaN

Coerce(row) == [i \in 1..NumColumns |-> to_numeric(row[i])]

\* load_csv_data: the rows of the DataFrame, <<>> for the empty DataFrame.
load_csv_data(exists, readable, file) ==
    IF ~exists \/ ~readable THEN <<>>
    ELSE LET r == ReadLines(file, FALSE, <<>>)
         IN  IF r.data = <<>> \/ ~r.header_found THEN <<>>
             ELSE [i \in 1..Len(r.data) |-> Coerce(r.data[i])]

\* The columns of a row of the DataFrame.
Timestamp(row) == row[1]
HourCol(row) == row[3]
DayCol(row) == row[4]
PeopleThisMinute(row) == row[5]
PeopleThisHour(row) == row[6]
PeopleThisDay(row) == row[7]
TotalUniquePeople(row) == row[8]

\* df.iloc[a:b] as Python slices: a negative index counts from the end, and
\* both ends are clipped to the frame.  b = <<>> is an open end.
Clip(i, n) == IF i < 0 THEN (IF i + n < 0 THEN 0 ELSE i + n) ELSE (IF i > n THEN n ELSE i)
iloc(df, a, b) ==
    LET n == Len(df)
        lo == Clip(a, n)
        hi == IF b = <<>> THEN n ELSE Clip(b[1], n)
    IN  IF lo < hi THEN SubSeq(df, lo + 1, hi) ELSE <<>>

NoResponse ==
    [endpoint |-> "", status |-> 0, error |-> "", data |-> <<>>, total_records |-> 0,
     entries |-> <<>>]
NotFound(endpoint, message) ==
    [NoResponse EXCEPT !.endpoint = endpoint, !.status = 404, !.error = message]
\* An exception in a view: Flask's 500 handler answers.
ServerError(endpoint) ==
    [NoResponse EXCEPT !.endpoint = endpoint, !.status = 500,
                       !.error = "Internal server error"]
Ok(endpoint, data, total, entries) ==
    [endpoint |-> endpoint, status |-> 200, error |-> "", data |-> data,
     total_records |-> total, entries |-> entries]

\* GET /data.  limit and offset are <<>> when the query does not give them.
get_all_data(df, limit, offset) ==
    IF df = <<>> THEN NotFound("/data", "No data available")
    ELSE LET off == IF offset = <<>> THEN 0 ELSE offset[1]
             page == IF limit # <<>> /\ limit[1] # 0
                     THEN iloc(df, off, <<off + limit[1]>>)
                     ELSE IF off # 0 THEN iloc(df, off, <<>>) ELSE df
         IN  Ok("/data", page, Len(page), <<>>)

\* GET /data/latest
get_latest_data(df) ==
    IF df = <<>> THEN NotFound("/data/latest", "No data available")
    ELSE Ok("/data/latest", <<df[Len(df)]>>, 0, <<>>)

\* max() and mean() of a column skip NaN; int() of NaN raises.
Column(df, c) == [i \in 1..Len(df) |-> df[i][c]]
Values(col) == {col[i][1] : i \in {j \in 1..Len(col) : ~IsNaN(col[j])}}
Max(S) == CHOOSE x \in S : \A y \in S : y <= x
Min(S) == CHOOSE x \in S : \A y \in S : x <= y
ColMax(df, c) == IF Values(Column(df, c)) = {} THEN NaN ELSE <<Max(Values(Column(df, c)))>>
ColMin(df, c) == IF Values(Column(df, c)) = {} THEN NaN ELSE <<Min(Values(Column(df, c)))>>

\* GET /data/summary: the extremes of the time stamps, the maxima of the four
\* counts and the counts of the last row.  (The means are floats, which the
\* model leaves out: float() of NaN does not raise.)
get_summary(df) ==
    IF df = <<>> THEN NotFound("/data/summary", "No data available")
    ELSE LET last == df[Len(df)]
             ints == {ColMax(df, c) : c \in 5..8} \cup {last[c] : c \in 5..8}
         IN  IF \E v \in ints : IsNaN(v) THEN ServerError("/data/summary")
             ELSE Ok("/data/summary", <<>>, Len(df),
                     << <<ColMin(df, 1), ColMax(df, 1)>>,
                        [c \in 1..4 |-> ColMax(df, c + 4)],
                        [c \in 1..4 |-> last[c + 4]] >>)

\* df[mask]: the rows at the positions in keep, in their order.
Rows(df, keep) ==
    LET F[i \in 0..Len(df)] ==
            IF i = 0 THEN <<>>
            ELSE IF i \in keep THEN Append(F[i - 1], df[i]) ELSE F[i - 1]
    IN  F[Len(df)]

\* The rows whose time stamp is at or after the cutoff; NaT compares false.
Since(df, cutoff) ==
    Rows(df, {i \in 1..Len(df) :
                 ~IsNaN(Timestamp(df[i])) /\ Timestamp(df[i])[1] >= cutoff})

HoursPerDay == 24
DefaultHours == 24
DefaultDays == 7
\* Timestamp.dt.hour
HourOfDay(row) == (Timestamp(row)[1] \div SecondsPerHour) % HoursPerDay

\* GET /data/hourly.  hours is <<>> when the query does not give it.
get_hourly_data(df, hours, t) ==
    IF df = <<>> THEN NotFound("/data/hourly", "No data available")
    ELSE
      LET h == IF hours = <<>> THEN DefaultHours ELSE hours[1]
          recent == Since(df, t - h * SecondsPerHour)
          InHour(k, row) == HourOfDay(row) = k
          Entry(k) ==
              LET hour_df == Rows(recent, {i \in 1..Len(recent) : InHour(k, recent[i])})
                  hour_data == hour_df[Len(hour_df)]
              IN  <<<<k>>, Timestamp(hour_data), PeopleThisHour(hour_data),
                    TotalUniquePeople(hour_data)>>
          hourly[k \in 0..HoursPerDay] ==
              IF k = 0 THEN <<>>
              ELSE IF \E i \in 1..Len(recent) : InHour(k - 1, recent[i])
                   THEN Append(hourly[k - 1], Entry(k - 1))
                   ELSE hourly[k - 1]
          hourly_data == hourly[HoursPerDay]
      IN  IF recent = <<>>
          THEN NotFound("/data/hourly",
                        "No data available for the last " \o ToString(h) \o " hours")
          ELSE IF \E i \in 1..Len(hourly_data) :
                     IsNaN(hourly_data[i][3]) \/ IsNaN(hourly_data[i][4])
          THEN ServerError("/data/hourly")
          ELSE Ok("/data/hourly", <<>>, h, hourly_data)

\* A variant of unique() that keeps the repeats.
Unique_keeps_repeats(col) == col

\* recent_df['Day'].unique(): the values in the order they first appear.
Unique(col) ==
    LET F[i \in 0..Len(col)] ==
            IF i = 0 THEN <<>>
            ELSE IF \E j \in 1..(i - 1) : col[j] = col[i] THEN F[i - 1]
                 ELSE Append(F[i - 1], col[i])
    IN  F[Len(col)]

\* GET /data/daily.  days is <<>> when the query does not give it.  A NaN
\* among the days equals nothing, so the rows of that day are none and
\* .iloc[-1] raises.
get_daily_data(df, days, t) ==
    IF df = <<>> THEN NotFound("/data/daily", "No data available")
    ELSE
      LET n == IF days = <<>> THEN DefaultDays ELSE days[1]
          recent == Since(df, t - n * SecondsPerDay)
          uniq == Unique(Column(recent, 4))
          Entry(day) ==
              LET day_df == Rows(recent, {i \in 1..Len(recent) : DayCol(recent[i]) = day})
                  day_data == day_df[Len(day_df)]
              IN  <<day, Timestamp(day_data), PeopleThisDay(day_data),
                    TotalUniquePeople(day_data)>>
          daily_data == [i \in 1..Len(uniq) |-> Entry(uniq[i])]
      IN  IF recent = <<>>
          THEN NotFound("/data/daily",
                        "No data available for the last " \o ToString(n) \o " days")
          ELSE IF \E i \in 1..Len(uniq) : IsNaN(uniq[i])
          THEN ServerError("/data/daily")
          ELSE IF \E i \in 1..Len(daily_data) :
                     IsNaN(daily_data[i][3]) \/ IsNaN(daily_data[i][4])
          THEN ServerError("/data/daily")
          ELSE Ok("/data/daily", <<>>, n, daily_data)

\* GET /data/current: the last row; int() of a NaN count raises.
get_current_data(df, t) ==
    IF df = <<>> THEN NotFound("/data/current", "No data available")
    ELSE LET latest == df[Len(df)]
         IN  IF \E c \in 5..8 : IsNaN(latest[c]) THEN ServerError("/data/current")
             ELSE Ok("/data/current",
                     << <<Timestamp(latest), PeopleThisMinute(latest),
                          PeopleThisHour(latest), PeopleThisDay(latest),
                          TotalUniquePeople(latest)>> >>,
                     0,
                     << <<minute_of(t)>>, <<hour_of(t)>>, <<day_of(t)>> >>)

\* --------------------------------------------------------- the API's requests
RECURSIVE SeqsUpTo(_, _)
SeqsUpTo(S, n) ==
    IF n = 0 THEN {<<>>}
    ELSE LET shorter == SeqsUpTo(S, n - 1)
         IN  shorter \cup {Append(q, x) : q \in {r \in shorter : Len(r) = n - 1}, x \in S}

RecentLine == writerow(ApiRow(ApiNow - SecondsPerHour \div 2, 1))
OldLine == writerow(ApiRow(ApiNow - 25 * SecondsPerHour, MaxCount))
\* A recent row whose People_This_Day is not a number.
NoCountLine ==
    writerow([ApiRow(ApiNow - SecondsPerHour \div 2, 1) EXCEPT ![7] = <<"x">>])
\* The lines of the model's files: an empty one, the two kinds of comment,
\* the header, the header with a row run into it, a row after white space, a
\* row with a ninth cell, a row cut to seven cells, eight cells of text, and
\* a row with one cell of text.
ApiLines ==
    { <<>>,
      NoCountLine,
      writerow(CommentRow1),
      writerow(CommentRow3),
      HeaderText,
      HeaderText \o RecentLine,
      <<" ">> \o RecentLine,
      OldLine \o <<",", "extra">>,
      SubSeq(RecentLine, 1, 2 * NumColumns - 3),
      writerow([i \in 1..NumColumns |-> <<"x">>]) }

Limits == {<<>>} \cup {<<i>> : i \in -1..MaxLimit}
Offsets == {<<>>} \cup {<<i>> : i \in 0..MaxOffset}
\* The hours or days a query asks for: none given, one, and two days' worth
\* of hours.
Periods == {<<>>, <<1>>, <<2 * HoursPerDay>>}

Loaded == load_csv_data(csv_exists, csv_readable, csv_file)

Answer(r) ==
    /\ response' = r
    /\ UNCHANGED <<vision, csv_exists, csv_file, constructed, locking, csv_readable,
                   dashboard>>

GetAllData(limit, offset) == Answer(get_all_data(Loaded, limit, offset))
GetLatestData == Answer(get_latest_data(Loaded))
GetSummary == Answer(get_summary(Loaded))
GetHourlyData(hours) == Answer(get_hourly_data(Loaded, hours, now))
GetDailyData(days) == Answer(get_daily_data(Loaded, days, now))
GetCurrentData == Answer(get_current_data(Loaded, now))

\* The API is running beside a file of some content, or none.
InitApi ==
    /\ now = ApiNow
    /\ ticks = 0
    /\ user_data = NewUserData(now)
    /\ csv_exists \in BOOLEAN
    /\ csv_readable \in BOOLEAN
    /\ csv_file \in (IF csv_exists THEN SeqsUpTo(ApiLines, MaxApiLines) ELSE {<<>>})
    /\ pc = "idle"
    /\ cb = NoCallback
    /\ since = {}
    /\ constructed = 0
    /\ csv_lock = 0
    /\ threads = NoThreads
    /\ response = NoResponse
    /\ DashboardIdle

NextApi ==
    \/ \E limit \in Limits, offset \in Offsets : GetAllData(limit, offset)
    \/ GetLatestData
    \/ GetSummary
    \/ \E hours \in Periods : GetHourlyData(hours)
    \/ \E days \in Periods : GetDailyData(days)
    \/ GetCurrentData

SpecApi == InitApi /\ [][NextApi]_vars

\* The two endpoints with a look-back window, beside a file of the header and
\* of rows: a recent one, an old one, and a recent one with a cell of text.
WindowLines ==
    {HeaderText, <<" ">> \o RecentLine, OldLine \o <<",", "extra">>, NoCountLine}

InitWindow ==
    /\ InitApi
    /\ \A i \in 1..Len(csv_file) : csv_file[i] \in WindowLines

NextWindow ==
    \/ \E hours \in Periods : GetHourlyData(hours)
    \/ \E days \in Periods : GetDailyData(days)

SpecWindow == InitWindow /\ [][NextWindow]_vars

\* ======================================================= web_dashboard/app.py
\* The steps below leave everything but the dashboard's globals alone.
RestUnchanged ==
    UNCHANGED <<vision, csv_exists, csv_file, constructed, locking, csv_readable>>

\* start_timelapse: when the flag is down, raise it and start a thread.
StartTimelapse ==
    /\ \E w \in Workers : timelapse_workers[w].at \in {"unstarted", "ended"}
    /\ IF ~timelapse_running
       THEN /\ timelapse_running' = TRUE
            /\ LET w == CHOOSE v \in Workers :
                            timelapse_workers[v].at \in {"unstarted", "ended"}
               IN  timelapse_workers' =
                       [timelapse_workers EXCEPT ![w] = [at |-> "while", frame |-> 0]]
       ELSE UNCHANGED <<timelapse_running, timelapse_workers>>
    /\ response' = [NoResponse EXCEPT !.endpoint = "/api/timelapse/start", !.status = 200]
    /\ UNCHANGED <<timelapse_frames, captured>>
    /\ RestUnchanged

\* stop_timelapse: lower the flag.
StopTimelapse ==
    /\ timelapse_running' = FALSE
    /\ response' = [NoResponse EXCEPT !.endpoint = "/api/timelapse/stop", !.status = 200]
    /\ UNCHANGED <<timelapse_frames, timelapse_workers, captured>>
    /\ RestUnchanged

\* while timelapse_running: the thread goes on, or ends.
WorkerWhile(w) ==
    /\ timelapse_workers[w].at = "while"
    /\ timelapse_workers' =
          [timelapse_workers EXCEPT ![w].at = IF timelapse_running THEN "capture"
                                              ELSE "ended"]
    /\ UNCHANGED <<timelapse_frames, timelapse_running, captured, response>>
    /\ RestUnchanged

\* frame = capture_frame(): under camera_lock the camera delivers its next
\* frame, or none.
WorkerCapture(w, ok) ==
    /\ timelapse_workers[w].at = "capture"
    /\ ok => captured < TimelapseLimit - 1 + MaxNewFrames
    /\ captured' = IF ok THEN captured + 1 ELSE captured
    /\ timelapse_workers' =
          [timelapse_workers EXCEPT
              ![w] = IF ok THEN [at |-> "append", frame |-> captured + 1]
                     ELSE [at |-> "sleep", frame |-> 0]]
    /\ UNCHANGED <<timelapse_frames, timelapse_running, response>>
    /\ RestUnchanged

\* timelapse_frames.append({...})
WorkerAppend(w) ==
    /\ timelapse_workers[w].at = "append"
    /\ timelapse_frames' = Append(timelapse_frames, timelapse_workers[w].frame)
    /\ timelapse_workers' = [timelapse_workers EXCEPT ![w].at = "trim"]
    /\ UNCHANGED <<timelapse_running, captured, response>>
    /\ RestUnchanged

\* if len(timelapse_frames) > 300: timelapse_frames.pop(0)
WorkerTrim(w) ==
    /\ timelapse_workers[w].at = "trim"
    /\ timelapse_frames' = IF Len(timelapse_frames) > TimelapseLimit
                            THEN Tail(timelapse_frames)
                            ELSE timelapse_frames
    /\ timelapse_workers' = [timelapse_workers EXCEPT ![w] = [at |-> "sleep", frame |-> 0]]
    /\ UNCHANGED <<timelapse_running, captured, response>>
    /\ RestUnchanged

\* time.sleep(TIMELAPSE_INTERVAL) is over.
WorkerSleep(w) ==
    /\ timelapse_workers[w].at = "sleep"
    /\ timelapse_workers' = [timelapse_workers EXCEPT ![w].at = "while"]
    /\ UNCHANGED <<timelapse_frames, timelapse_running, captured, response>>
    /\ RestUnchanged

\* GET /api/timelapse: the list as it is.
get_timelapse(frames) == Ok("/api/timelapse", frames, Len(frames), <<>>)
GetTimelapse == Answer(get_timelapse(timelapse_frames))

\* The dashboard has run for a while with one worker and no request: the
\* list holds 299 frames and the worker sleeps.
FirstFrames == [i \in 1..(TimelapseLimit - 1) |-> i]
InitTimelapse ==
    /\ now = 0
    /\ ticks = 0
    /\ user_data = NewUserData(now)
    /\ csv_exists = FALSE
    /\ csv_file = <<>>
    /\ pc = "idle"
    /\ cb = NoCallback
    /\ since = {}
    /\ constructed = 0
    /\ csv_lock = 0
    /\ threads = NoThreads
    /\ csv_readable = TRUE
    /\ response = NoResponse
    /\ timelapse_frames = FirstFrames
    /\ timelapse_running = TRUE
    /\ timelapse_workers =
          [w \in Workers |-> IF w = 1 THEN [at |-> "sleep", frame |-> 0] ELSE NoWorker]
    /\ captured = TimelapseLimit - 1

NextTimelapse ==
    \/ StartTimelapse
    \/ StopTimelapse
    \/ GetTimelapse
    \/ \E w \in Workers : WorkerWhile(w)
    \/ \E w \in Workers, ok \in BOOLEAN : WorkerCapture(w, ok)
    \/ \E w \in Workers : WorkerAppend(w)
    \/ \E w \in Workers : WorkerTrim(w)
    \/ \E w \in Workers : WorkerSleep(w)

SpecTimelapse == InitTimelapse /\ [][NextTimelapse]_vars

\* ------------------------------------------------------------ environment
\* The program starts half a minute before midnight: the next minute is also
\* the next hour and the next day.
Starts == {SecondsPerDay - 30}
Deltas == {SecondsPerMinute \div 2}

Tick(d) ==
    /\ ticks < MaxTicks
    /\ now' = now + d
    /\ ticks' = ticks + 1
    /\ UNCHANGED <<user_data, csv_exists, csv_file, pc, cb, since>>
    /\ UNCHANGED <<constructed, locking, api, dashboard>>

\* The state after user_app_callback_class() in a directory without the file.
Init ==
    /\ now \in Starts
    /\ ticks = 0
    /\ user_data = NewUserData(now)
    /\ csv_exists = init_csv_file(FALSE, <<>>, TRUE).exists
    /\ csv_file = init_csv_file(FALSE, <<>>, TRUE).file
    /\ pc = "idle"
    /\ cb = NoCallback
    /\ since = {}
    /\ constructed = 1
    /\ csv_lock = 0
    /\ threads = NoThreads
    /\ csv_readable = TRUE
    /\ response = NoResponse
    /\ DashboardIdle

Next ==
    \/ \E d \in Deltas : Tick(d)
    \/ \E buffer \in BOOLEAN : CallbackBegin(buffer)
    \/ \E d \in Detections, writable \in BOOLEAN : LoopStep(d, writable)
    \/ \E writable \in BOOLEAN : CallbackEnd(writable)

Spec == Init /\ [][Next]_vars

\* Several threads in log_to_csv on one instance.
InitLock == Init

NextLock ==
    \/ \E t \in Threads : LogEnter(t)
    \/ \E t \in Threads : LogAcquire(t)
    \/ \E t \in Threads, writable \in BOOLEAN : LogOpen(t, writable)
    \/ \E t \in Threads : LogWrite(t)
    \/ \E t \in Threads : LogFlush(t)
    \/ \E t \in Threads : LogClose(t)
    \/ \E t \in Threads : LogRelease(t)
    \/ \E t \in Threads : LogReturn(t)

SpecLock == InitLock /\ [][NextLock]_vars

\* The lines a file found at start-up may hold: an empty line, a line of
\* white space, a comment, the header, a data row.
FoundLines ==
    {<<>>, <<" ">>, writerow(CommentRow1), writerow(HeaderRow),
     writerow(DataRow(NewUserData(0), 0, 0))}

\* The program is about to be started in a directory that may hold a file.
InitFound ==
    /\ now \in Starts
    /\ ticks = 0
    /\ user_data = NewUserData(now)
    /\ csv_exists \in BOOLEAN
    /\ csv_file \in (IF csv_exists THEN SeqsUpTo(FoundLines, MaxLines) ELSE {<<>>})
    /\ pc = "idle"
    /\ cb = NoCallback
    /\ since = {}
    /\ constructed = 0
    /\ csv_lock = 0
    /\ threads = NoThreads
    /\ csv_readable = TRUE
    /\ response = NoResponse
    /\ DashboardIdle

NextFound ==
    \/ \E writable \in BOOLEAN : Construct(writable)
    \/ constructed > 0 /\ LogRow

SpecInit == InitFound /\ [][NextFound]_vars

\* ------------------------------------------------------------- the claims
\* The k-th cell of a line of unquoted cells.
Field(line, k) == line[2 * k - 1]
LastLine == csv_file[Len(csv_file)]
MinuteChanged == minute_of(now) # user_data.current_minute

\* C1: people_count is the number of distinct track ids in tracked_people,
\* whatever add_person calls and rollovers have happened.
C1_CountIsDistinctIds ==
    user_data.people_count = Cardinality(user_data.tracked_people)

\* Two people counted, one of them no longer in the minute set: a rollover
\* has cleared it.
C1_Witness ==
    /\ pc = "idle"
    /\ user_data.people_count = 2
    /\ Cardinality(user_data.current_minute_people) < 2
    /\ cb.ret = "seen"

\* C2: add_person returns True exactly when the id was not tracked; on a
\* repeat it returns False, leaves tracked_people and people_count alone, and
\* in both cases the id is in the minute, hour and day sets afterwards.
C2_AddPersonReturn ==
    [][(pc = "loop" /\ cb'.n = cb.n + 1 /\ cb'.ret # "skipped") =>
             LET id == cb'.id IN
             /\ (cb'.ret = "new") <=> (id \notin user_data.tracked_people)
             /\ cb'.ret \in {"new", "seen"}
             /\ cb'.ret = "seen" =>
                   /\ user_data'.tracked_people = user_data.tracked_people
                   /\ user_data'.people_count = user_data.people_count
             /\ id \in user_data'.current_minute_people
             /\ id \in user_data'.current_hour_people
             /\ id \in user_data'.current_day_people]_vars

\* The second frame repeats an id while two people are tracked.
C2_Witness ==
    /\ pc = "loop"
    /\ cb.ret = "seen"
    /\ user_data.frame_count = 2
    /\ user_data.people_count = 2

\* What a minute rollover does to the file and the instance: one more line,
\* whose People_This_Minute is the size of the set as it was, and then the
\* set is empty and current_minute is the clock's minute.
RolloverRowWritten ==
    /\ Len(csv_file') = Len(csv_file) + 1
    /\ SubSeq(csv_file', 1, Len(csv_file)) = csv_file
    /\ Field(csv_file'[Len(csv_file')], 5)
          = ToString(Cardinality(user_data.current_minute_people))
MinuteReset ==
    /\ user_data'.current_minute_people = {}
    /\ user_data'.current_minute = minute_of(now)
NoRollover ==
    /\ csv_file' = csv_file
    /\ user_data'.current_minute_people = user_data.current_minute_people
    /\ user_data'.current_minute = user_data.current_minute

\* C3 as stated: every invocation whose clock minute differs from
\* current_minute appends one rollover row and resets the minute; one whose
\* minute is unchanged does neither.
C3_Original ==
    [][(CallbackBegin(FALSE) \/ \E w \in BOOLEAN : CallbackEnd(w)) =>
          IF MinuteChanged THEN RolloverRowWritten /\ MinuteReset ELSE NoRollover]_vars

\* C3 amended: an invocation that has a buffer and whose clock minute differs
\* from current_minute calls log_to_csv once for the rollover, which appends
\* one row when the file opens and none when it does not, then resets the
\* minute; one whose minute is unchanged, or that has no buffer, does neither.
C3_MinuteRollover ==
    [][/\ (pc = "loop" /\ pc' = "idle") =>
             \A w \in BOOLEAN : CallbackEnd(w) =>
                IF MinuteChanged
                THEN /\ MinuteReset
                     /\ IF w THEN RolloverRowWritten ELSE csv_file' = csv_file
                ELSE NoRollover
       /\ (pc = "idle" /\ cb'.calls # cb.calls) =>
             (CallbackBegin(FALSE) => NoRollover)]_vars

\* A rollover has just logged a minute in which somebody was seen.
C3_Witness ==
    /\ pc = "idle"
    /\ cb.rolled
    /\ user_data.current_minute_people = {}
    /\ user_data.current_minute = minute_of(now)
    /\ Len(csv_file) > Len(HeaderLines)
    /\ Field(LastLine, 2) = ToString(minute_of(now))
    /\ Field(LastLine, 5) = "1"

\* C4: the row logged at a minute rollover counts the ids detected by the
\* callbacks whose clock reading fell in the minute that ended, and the new
\* minute's set then holds the ids detected by callbacks of the new minute.
C4_RowCountsEndedMinute ==
    [][(CallbackEnd(TRUE) /\ MinuteChanged) =>
          /\ Field(csv_file'[Len(csv_file')], 5) = ToString(Cardinality(since))
          /\ user_data'.current_minute_people = since']_vars

\* C5: at most one thread at a time is between opening the CSV file and
\* closing it, and every line after the header lines is one whole row.
InFile(t) == threads[t].at \in {"write", "flush", "close"}
WholeRow(line) ==
    /\ Len(line) = 2 * Len(HeaderNames) - 1
    /\ \A i \in 1..Len(line) : (line[i] = ",") <=> (i % 2 = 0)
C5_OneWriterAtATime ==
    /\ Cardinality({t \in Threads : InFile(t)}) <= 1
    /\ \A i \in (Len(HeaderLines) + 1)..Len(csv_file) : WholeRow(csv_file[i])

\* One thread is about to flush its row while another waits for the lock,
\* a row already in the file.
C5_Witness ==
    /\ \E t, u \in Threads : threads[t].at = "flush" /\ threads[u].at = "lock"
    /\ Len(csv_file) > Len(HeaderLines)

\* C6: init_csv_file writes the header lines only when the file is missing
\* or holds nothing but white space; a file with content is left as it is.
HasContent(file) ==
    \E i \in 1..Len(file) : \E j \in 1..Len(file[i]) : file[i][j] \notin Whitespace
C6_InitKeepsContent ==
    [][\A w \in BOOLEAN : Construct(w) =>
          IF csv_exists /\ HasContent(csv_file)
          THEN csv_exists' /\ csv_file' = csv_file
          ELSE \/ csv_exists' /\ csv_file' = HeaderLines
               \/ ~w /\ csv_exists' = csv_exists /\ csv_file' = csv_file]_vars

\* The program has been started twice on a file that began with a data row
\* and has logged to it: the file still begins with that row and no header
\* was added.
C6_Witness ==
    /\ constructed = 2
    /\ Len(csv_file) = 3
    /\ csv_file[1] = writerow(DataRow(NewUserData(0), 0, 0))
    /\ \A i \in 1..Len(csv_file) : csv_file[i] # writerow(HeaderRow)

\* The data rows of a file as C7 describes them: every line that is not
\* blank, not a comment and not the header, with eight cells or more, cut to
\* eight; and for a header line with data run into it, that data.
IsComment(line) == StartsWith(line, <<"#">>) \/ StartsWith(line, <<"\"", "#">>)
RECURSIVE DataRows(_)
DataRows(file) ==
    IF file = <<>> THEN <<>>
    ELSE LET line == Strip(Head(file))
             rest == DataRows(Tail(file))
             tail == SubSeq(line, Len(HeaderText) + 1, Len(line))
         IN  IF line = <<>> \/ IsComment(line) \/ line = HeaderText THEN rest
             ELSE IF StartsWith(line, HeaderText)
             THEN IF Len(SplitCommas(tail)) >= NumColumns
                  THEN <<FirstColumns(SplitCommas(tail))>> \o rest
                  ELSE rest
             ELSE IF Len(csv_reader(line)) >= NumColumns
             THEN <<FirstColumns(csv_reader(line))>> \o rest
             ELSE rest
Records(file) == [i \in 1..Len(DataRows(file)) |-> Coerce(DataRows(file)[i])]
Readable == csv_exists /\ csv_readable

\* C7: load_csv_data returns exactly the data rows of the file, in file
\* order, each cut to the eight columns; blank lines, comments and the header
\* are never records.
C7_LoadsExactlyDataRows ==
    Readable => Loaded = Records(csv_file)

\* C8: when the file is missing, unreadable or without a data row, every data
\* endpoint answers 404 with the error 'No data available'.
C8_NoDataIs404 ==
    (response.endpoint # "" /\ (~Readable \/ DataRows(csv_file) = <<>>)) =>
        response.status = 404 /\ response.error = "No data available"

\* C9: GET /data with limit and offset returns the records at positions
\* offset .. offset+limit-1 of the loaded data, never more than limit of them;
\* with offset alone, everything after the first offset records.
Page(df, offset, limit) ==
    LET n == IF Len(df) - offset < limit THEN Len(df) - offset ELSE limit
    IN  [i \in 1..(IF n < 0 THEN 0 ELSE n) |-> df[offset + i]]
C9_Pagination ==
    [][\A limit \in Limits, offset \in Offsets \ {<<>>} :
          (GetAllData(limit, offset) /\ Loaded # <<>>) =>
             IF limit # <<>>
             THEN /\ Len(response'.data) <= limit[1]
                  /\ response'.data = Page(Loaded, offset[1], limit[1])
             ELSE response'.data = Page(Loaded, offset[1], Len(Loaded))]_vars

\* C10: /data/latest and /data/current return the last data row of the file.
LastRecord == Records(csv_file)[Len(Records(csv_file))]
C10_LatestIsLastDataRow ==
    (Readable /\ DataRows(csv_file) # <<>>) =>
        /\ response.endpoint = "/data/latest" =>
              response.status = 200 /\ response.data = <<LastRecord>>
        /\ response.endpoint = "/data/current" =>
              /\ response.status = 200
              /\ response.data = << <<LastRecord[1], LastRecord[5], LastRecord[6],
                                      LastRecord[7], LastRecord[8]>> >>

\* The rows of the loaded data inside the look-back window that starts cutoff
\* seconds before now, and the last of them whose column c holds v.
InWindow(cutoff) ==
    {i \in 1..Len(Loaded) :
        ~IsNaN(Timestamp(Loaded[i])) /\ Timestamp(Loaded[i])[1] >= now - cutoff}
LastWith(rows, c, v) ==
    Loaded[CHOOSE i \in rows :
              /\ Loaded[i][c] = v
              /\ \A j \in rows : Loaded[j][c] = v => j <= i]

\* C11: /data/hourly answers with exactly one entry for each distinct value
\* of the Hour column among the rows inside the window of the hours asked
\* for, each entry carrying the time stamp, People_This_Hour and
\* Total_Unique_People of the last such row.
C11_HourlyOnePerHourPeriod ==
    (response.endpoint = "/data/hourly" /\ response.status = 200) =>
        LET rows == InWindow(response.total_records * SecondsPerHour)
            periods == {HourCol(Loaded[i]) : i \in rows}
        IN  /\ Len(response.entries) = Cardinality(periods)
            /\ \A h \in periods :
                  \E k \in 1..Len(response.entries) :
                     /\ response.entries[k][2] = Timestamp(LastWith(rows, 3, h))
                     /\ response.entries[k][3] = PeopleThisHour(LastWith(rows, 3, h))
                     /\ response.entries[k][4] = TotalUniquePeople(LastWith(rows, 3, h))

\* What C12 expects of an answer with entries: one for each value of the Day
\* column among the rows inside the window, carrying the time stamp,
\* People_This_Day and Total_Unique_People of the last row of that day.
OnePerDay(rows) ==
    LET days == {DayCol(Loaded[i]) : i \in rows}
    IN  /\ response'.status = 200
        /\ Len(response'.entries) = Cardinality(days)
        /\ \A d \in days :
              \E k \in 1..Len(response'.entries) :
                 /\ response'.entries[k][1] = d
                 /\ response'.entries[k][2] = Timestamp(LastWith(rows, 4, d))
                 /\ response'.entries[k][3] = PeopleThisDay(LastWith(rows, 4, d))
                 /\ response'.entries[k][4] = TotalUniquePeople(LastWith(rows, 4, d))
NamesDays(n) ==
    /\ response'.status = 404
    /\ response'.error = "No data available for the last " \o ToString(n) \o " days"
DaysAsked(days) == IF days = <<>> THEN DefaultDays ELSE days[1]

\* C12 as stated: one entry per Day value in the window, and 404 with the
\* number of days when no row is in the window.
C12_Original ==
    [][\A days \in Periods : GetDailyData(days) =>
          LET rows == InWindow(DaysAsked(days) * SecondsPerDay)
          IN  IF rows = {} THEN NamesDays(DaysAsked(days)) ELSE OnePerDay(rows)]_vars

\* A row of the window that makes the view raise: a Day that is not a number,
\* or, in the last row of its day, a count that is not one.
Unanswerable(rows) ==
    \E i \in rows :
       \/ IsNaN(DayCol(Loaded[i]))
       \/ /\ Loaded[i] = LastWith(rows, 4, DayCol(Loaded[i]))
          /\ IsNaN(PeopleThisDay(Loaded[i])) \/ IsNaN(TotalUniquePeople(Loaded[i]))

\* C12 amended: with no record loaded the answer is 404 'No data available';
\* with records but none in the window it is 404 naming the number of days;
\* with a row in the window whose Day, or whose day's last counts, are not
\* numbers it is 500; otherwise it has one entry per Day value in the window,
\* carrying the values of the last row of that day.
C12_DailyOnePerDay ==
    [][\A days \in Periods : GetDailyData(days) =>
          LET rows == InWindow(DaysAsked(days) * SecondsPerDay)
          IN  IF Loaded = <<>>
              THEN response'.status = 404 /\ response'.error = "No data available"
              ELSE IF rows = {} THEN NamesDays(DaysAsked(days))
              ELSE IF Unanswerable(rows) THEN response'.status = 500
              ELSE OnePerDay(rows)]_vars

\* /data/daily has answered a file of two days with two entries.
C12_Witness ==
    /\ response.endpoint = "/data/daily"
    /\ response.status = 200
    /\ Len(response.entries) = 2
    /\ Len(Loaded) = 3

\* C13: the frames of a GET /api/timelapse answer are never more than 300,
\* and they are in capture order.
C13_TimelapseAtMost300 ==
    response.endpoint = "/api/timelapse" =>
        /\ Len(response.data) <= TimelapseLimit
        /\ \A i \in 1..(Len(response.data) - 1) : response.data[i] < response.data[i + 1]

\* C14: an iteration of the detection loop changes the counting state, the
\* file or the per-frame count only for a detection labelled "person" with a
\* confidence of 70% or more, which it counts in the frame; any other
\* detection leaves the instance, the file and the per-frame count as they
\* were.
C14_OnlyConfidentPersons ==
    [][(pc = "loop" /\ cb'.n = cb.n + 1) =>
          LET d == cb'.det IN
          IF d.label = "person" /\ d.confidence >= ConfidenceThreshold
          THEN /\ cb'.frame_people = cb.frame_people + 1
               /\ cb'.id \in user_data'.tracked_people
          ELSE /\ user_data' = user_data
               /\ csv_file' = csv_file
               /\ csv_exists' = csv_exists
               /\ cb'.frame_people = cb.frame_people]_vars

\* A frame in which one person was counted has just had a person at 69%
\* skipped.
C14_Witness ==
    /\ pc = "loop"
    /\ cb.n = 2
    /\ cb.det.label = "person"
    /\ cb.det.confidence = ConfidenceThreshold - 1
    /\ cb.frame_people = 1
    /\ user_data.people_count = 1

\* An invocation of app_callback that finds no buffer.
NoBufferCall == pc = "idle" /\ cb'.calls = cb.calls + 1 /\ ~cb'.buffer

\* C15: an invocation that finds no buffer returns with no effect: the frame
\* counter, the people, the sets, the periods and the file stay as they are,
\* whatever the clock says.
C15_NoBufferNoEffect ==
    [][NoBufferCall =>
          /\ user_data' = user_data
          /\ csv_file' = csv_file
          /\ csv_exists' = csv_exists
          /\ pc' = "idle"]_vars

\* An invocation without a buffer has returned in a new minute, hour and day:
\* the frame counted before is still the only one, and the person seen in it
\* is still in the three sets.
C15_Witness ==
    /\ pc = "idle"
    /\ cb.calls = 2
    /\ ~cb.buffer
    /\ MinuteChanged
    /\ hour_of(now) # user_data.current_hour
    /\ day_of(now) # user_data.current_day
    /\ user_data.frame_count = 1
    /\ user_data.current_minute_people # {}
    /\ user_data.current_day_people # {}

\* The number of rows a step appends to the file.
Appended == Len(csv_file') - Len(csv_file)
OneIf(b) == IF b THEN 1 ELSE 0

\* C16 as stated, step by step through an invocation: a loop iteration
\* appends one row when add_person returned True and none otherwise, and the
\* invocation appends one more when the minute index changed.
C16_Original ==
    [][/\ (pc = "loop" /\ cb'.n = cb.n + 1) => Appended = OneIf(cb'.ret = "new")
       /\ (pc = "loop" /\ pc' = "idle") => Appended = OneIf(MinuteChanged)
       /\ NoBufferCall => Appended = OneIf(MinuteChanged)]_vars

\* C16 amended: in an invocation with a buffer, log_to_csv is called once for
\* each detection for which add_person returned True and once more when the
\* minute index changed, and each call appends one row when the file opens
\* and none when it does not; nothing else appends, and an invocation without
\* a buffer appends nothing.
C16_RowsPerInvocation ==
    [][/\ (pc = "loop" /\ cb'.n = cb.n + 1) =>
             IF cb'.ret = "new"
             THEN \A w \in BOOLEAN : LoopStep(cb'.det, w) =>
                     /\ Appended = OneIf(w)
                     /\ SubSeq(csv_file', 1, Len(csv_file)) = csv_file
             ELSE csv_file' = csv_file
       /\ (pc = "loop" /\ pc' = "idle") =>
             \A w \in BOOLEAN : CallbackEnd(w) =>
                /\ Appended = OneIf(MinuteChanged /\ w)
                /\ SubSeq(csv_file', 1, Len(csv_file)) = csv_file
       /\ NoBufferCall => csv_file' = csv_file
       /\ (pc = "idle" /\ pc' = "loop") => csv_file' = csv_file
       /\ now' # now => csv_file' = csv_file]_vars

\* An invocation has appended three rows: one for each of two new people and
\* one for the minute that ended.
C16_Witness ==
    /\ pc = "idle"
    /\ cb.rolled
    /\ cb.calls = 1
    /\ user_data.people_count = 2
    /\ Len(csv_file) = Len(HeaderLines) + 3

====
